---- MODULE Spec2Model ----
(***************************************************************************)
(* Model of the Document Summarizer backend (src/backend/app.py).          *)
(*                                                                         *)
(* A Python string is modelled as a sequence of one-character strings.     *)
(* The bullet marker U+2022 is written "*"; a character TLA+ has no escape  *)
(* for is written as its code point, "U+000B".                             *)
(*                                                                         *)
(* Four specifications share the module:                                   *)
(*   SpecPipeline  chunk_text and the chunk loop of summarize_long_text    *)
(*   SpecCombine   get_combined_summary                                    *)
(*   SpecHandlers  the request handlers /process-pdf, /summarize, /export  *)
(*   SpecCache     concurrent get_model calls on the shared model cache    *)
(***************************************************************************)
EXTENDS Integers, Sequences, FiniteSets, TLC

VARIABLES
    \* summarize_long_text
    text,          \* argument text
    max_tokens,    \* argument max_tokens
    style,         \* argument style (also get_combined_summary's)
    chunks,        \* local chunks
    summaries,     \* local summaries (also get_combined_summary's argument)
    calls,         \* log of the generation engine's calls, kept by the engine
    idx,           \* loop index i of summarize_long_text (chunks done so far)
    pc,            \* position in summarize_long_text / get_combined_summary
    combined,      \* result of get_combined_summary
    \* request handlers
    req,           \* per request: endpoint, position, response, what it did
    uploads,       \* files present in UPLOAD_FOLDER
    generated,     \* number of generation calls made so far
    \* get_model
    model_cache,   \* the module-level dict model_cache
    thr,           \* per get_model call: requested name, position, locals
    loads,         \* number of pipeline(...) loads started so far
    writes         \* log of the cache writes, oldest first: name and engine

vars == <<text, max_tokens, style, chunks, summaries, calls, idx, pc, combined,
          req, uploads, generated, model_cache, thr, loads, writes>>

pipeVars == <<text, max_tokens, style, chunks, summaries, calls, idx, pc, combined>>
handlerVars == <<req, uploads, generated>>
cacheVars == <<model_cache, thr, loads, writes>>

----------------------------------------------------------------------------
(* Bounds of the model *)

MaxTextLen == 4
MaxTokens == 3
MaxParts == 2
MaxSummaryChars == 4
MaxRequests == 2
MaxCalls == 3

----------------------------------------------------------------------------
(* Strings *)

Alphabet == {"a", ".", " ", "\f", "*"}

\* the characters \s of a str pattern matches and str.strip() removes
Whitespace ==
    {" ", "\t", "\n", "\r", "\f", "U+000B", "U+001C", "U+001D", "U+001E", "U+001F",
     "U+0085", "U+00A0", "U+1680", "U+2000", "U+2001", "U+2002", "U+2003",
     "U+2004", "U+2005", "U+2006", "U+2007", "U+2008", "U+2009", "U+200A",
     "U+2028", "U+2029", "U+202F", "U+205F", "U+3000"}

Terminal == {".", "!", "?"}

Bullet == "*"

RECURSIVE StringsOver(_, _)
StringsOver(A, n) ==
    IF n = 0 THEN {<<>>}
    ELSE LET shorter == StringsOver(A, n - 1)
         IN  shorter \cup {Append(s, c) : s \in {t \in shorter : Len(t) = n - 1}, c \in A}

StringsUpTo(n) == StringsOver(Alphabet, n)

\* the kinds of character get_combined_summary tells apart in a chunk
\* summary: the bullet marker, a sentence end, the line break that also
\* separates the lines of its output, another whitespace character, any
\* other character
SummaryAlphabet == {"a", ".", "\n", "\f", "*"}

\* the sequences of exactly n strings whose lengths sum to at most budget
RECURSIVE StringSeqs(_, _)
StringSeqs(n, budget) ==
    IF n = 0 THEN {<<>>}
    ELSE UNION { {<<p>> \o rest : rest \in StringSeqs(n - 1, budget - Len(p))} :
                 p \in StringsOver(SummaryAlphabet, budget) }

\* str.strip(): drop leading and trailing whitespace
RECURSIVE LStrip(_)
LStrip(s) ==
    IF s # <<>> /\ Head(s) \in Whitespace THEN LStrip(Tail(s)) ELSE s

RECURSIVE RStrip(_)
RStrip(s) ==
    IF s # <<>> /\ s[Len(s)] \in Whitespace
    THEN RStrip(SubSeq(s, 1, Len(s) - 1))
    ELSE s

Strip(s) == RStrip(LStrip(s))

\* first index >= i of s that holds no whitespace, Len(s) + 1 if there is none
RECURSIVE SkipSpace(_, _)
SkipSpace(s, i) ==
    IF i <= Len(s) /\ s[i] \in Whitespace THEN SkipSpace(s, i + 1) ELSE i

\* re.split(r'(?<=[.!?])\s+', s) from index i on, cur being the piece in progress
RECURSIVE SplitFrom(_, _, _)
SplitFrom(s, i, cur) ==
    IF i > Len(s) THEN <<cur>>
    ELSE IF i > 1 /\ s[i - 1] \in Terminal /\ s[i] \in Whitespace
         THEN <<cur>> \o SplitFrom(s, SkipSpace(s, i), <<>>)
         ELSE SplitFrom(s, i + 1, Append(cur, s[i]))

SplitSentences(s) == SplitFrom(s, 1, <<>>)

\* " ".join(ss)
RECURSIVE JoinSpace(_)
JoinSpace(ss) ==
    IF ss = <<>> THEN <<>>
    ELSE IF Len(ss) = 1 THEN ss[1]
    ELSE ss[1] \o <<" ">> \o JoinSpace(Tail(ss))

----------------------------------------------------------------------------
(* chunk_text *)

\* the for loop of chunk_text from sentence i on, then the final flush
RECURSIVE ChunkLoopDropping(_, _, _, _, _)
ChunkLoopDropping(sentences, i, max, cs, current_chunk) ==
    IF i > Len(sentences)
    THEN IF current_chunk # <<>> THEN Append(cs, Strip(current_chunk)) ELSE cs
    ELSE IF Len(current_chunk) + Len(sentences[i]) <= max
         THEN ChunkLoopDropping(sentences, i + 1, max, cs,
                                current_chunk \o sentences[i] \o <<" ">>)
         ELSE ChunkLoopDropping(sentences, i + 1, max,
                                IF current_chunk # <<>>
                                THEN Append(cs, Strip(current_chunk)) ELSE cs,
                                <<>>)

RECURSIVE ChunkLoop(_, _, _, _, _)
ChunkLoop(sentences, i, max, cs, current_chunk) ==
    IF i > Len(sentences)
    THEN IF current_chunk # <<>> THEN Append(cs, Strip(current_chunk)) ELSE cs
    ELSE IF Len(current_chunk) + Len(sentences[i]) <= max
         THEN ChunkLoop(sentences, i + 1, max, cs,
                        current_chunk \o sentences[i] \o <<" ">>)
         ELSE ChunkLoop(sentences, i + 1, max,
                        IF current_chunk # <<>>
                        THEN Append(cs, Strip(current_chunk)) ELSE cs,
                        sentences[i] \o <<" ">>)

\* the loop with a length test that leaves the separators out of the count
RECURSIVE ChunkLoopUncounted(_, _, _, _, _)
ChunkLoopUncounted(sentences, i, max, cs, current_chunk) ==
    IF i > Len(sentences)
    THEN IF current_chunk # <<>> THEN Append(cs, Strip(current_chunk)) ELSE cs
    ELSE IF Len(Strip(current_chunk)) + Len(sentences[i]) <= max
         THEN ChunkLoopUncounted(sentences, i + 1, max, cs,
                                 current_chunk \o sentences[i] \o <<" ">>)
         ELSE ChunkLoopUncounted(sentences, i + 1, max,
                                 IF current_chunk # <<>>
                                 THEN Append(cs, Strip(current_chunk)) ELSE cs,
                                 sentences[i] \o <<" ">>)

\* a chunker whose size test does not count the separating spaces
chunk_text_uncounted(t, max) ==
    ChunkLoopUncounted(SplitSentences(t), 1, max, <<>>, <<>>)

\* a chunker that loses the sentence that overflows the buffer
chunk_text_dropping(t, max) ==
    ChunkLoopDropping(SplitSentences(t), 1, max, <<>>, <<>>)

\* a chunker that enforces the limit as a hard cap by cutting long sentences
chunk_text_truncating(t, max) ==
    LET sentences == SplitSentences(t)
    IN  ChunkLoop([k \in 1..Len(sentences) |->
                      IF Len(sentences[k]) > max
                      THEN SubSeq(sentences[k], 1, max) ELSE sentences[k]],
                  1, max, <<>>, <<>>)

\* lines 102-121
chunk_text(t, max) == ChunkLoop(SplitSentences(t), 1, max, <<>>, <<>>)

----------------------------------------------------------------------------
(* get_prompt_prefix *)

StyleNames == {"Concise", "Detailed", "Bullet Points", "Academic", "ELI5"}

StylePrefix(s) ==
    CASE s = "Concise" -> "Provide a concise and brief summary of the following text: "
      [] s = "Detailed" -> "Provide a comprehensive and detailed summary of the following text, including key points and main ideas: "
      [] s = "Bullet Points" -> "Summarize the following text as a list of bullet points covering the main ideas: "
      [] s = "Academic" -> "Create an academic summary of the following text, highlighting methodology, findings, and conclusions: "
      [] s = "ELI5" -> "Explain the following text as if explaining to a 5-year old in simple terms: "

\* the prefix is kept as one token in front of the chunk's characters
get_prompt_prefix(s) == IF s \in StyleNames THEN <<StylePrefix(s)>> ELSE <<s>>

----------------------------------------------------------------------------
(* summarize_long_text *)

\* what the generation engine may return, and the errors it may raise
Outputs == {<<"a", ".">>, <<"*", "a">>}
Errors == {<<"CUDA out of memory">>}

Styles == {"Concise", "Bullet Points", "Shorten this: "}

Sentinel(e) == <<"Summary generation failed for this section: ">> \o e

\* chunks = chunk_text(text, max_tokens); summaries = []
ChunkStep ==
    /\ pc = "start"
    /\ chunks' = chunk_text(text, max_tokens)
    /\ pc' = "loop"
    /\ UNCHANGED <<text, max_tokens, style, summaries, calls, idx, combined,
                 handlerVars, cacheVars>>

\* one iteration whose model(...) call returns generated text
SummarizeChunkOk ==
    /\ pc = "loop"
    /\ idx < Len(chunks)
    /\ \E out \in Outputs :
          /\ calls' = Append(calls, [input |-> get_prompt_prefix(style) \o chunks[idx + 1],
                                     ok |-> TRUE, value |-> out])
          /\ summaries' = Append(summaries, out)
    /\ idx' = idx + 1
    /\ UNCHANGED <<text, max_tokens, style, chunks, pc, combined,
                 handlerVars, cacheVars>>

\* a loop that loses the part of a chunk whose generation fails
SummarizeChunkFailDropping ==
    /\ pc = "loop"
    /\ idx < Len(chunks)
    /\ \E e \in Errors :
          calls' = Append(calls, [input |-> get_prompt_prefix(style) \o chunks[idx + 1],
                                  ok |-> FALSE, value |-> e])
    /\ idx' = idx + 1
    /\ UNCHANGED <<text, max_tokens, style, chunks, summaries, pc, combined,
                 handlerVars, cacheVars>>

\* one iteration whose model(...) call raises: the except branch
SummarizeChunkFail ==
    /\ pc = "loop"
    /\ idx < Len(chunks)
    /\ \E e \in Errors :
          /\ calls' = Append(calls, [input |-> get_prompt_prefix(style) \o chunks[idx + 1],
                                     ok |-> FALSE, value |-> e])
          /\ summaries' = Append(summaries, Sentinel(e))
    /\ idx' = idx + 1
    /\ UNCHANGED <<text, max_tokens, style, chunks, pc, combined,
                 handlerVars, cacheVars>>

\* return summaries
SummarizeReturn ==
    /\ pc = "loop"
    /\ idx = Len(chunks)
    /\ pc' = "returned"
    /\ UNCHANGED <<text, max_tokens, style, chunks, summaries, calls, idx, combined,
                 handlerVars, cacheVars>>

----------------------------------------------------------------------------
(* get_combined_summary *)

\* first index >= i of s that holds the bullet marker, Len(s) + 1 if none
RECURSIVE NextBullet(_, _)
NextBullet(s, i) ==
    IF i <= Len(s) /\ s[i] # Bullet THEN NextBullet(s, i + 1) ELSE i

\* re.findall(bullet \s* (.*?) (?= bullet | end), part, re.DOTALL) from index i on
RECURSIVE FindBulletsFrom(_, _)
FindBulletsFrom(s, i) ==
    LET p == NextBullet(s, i)
    IN  IF p > Len(s) THEN <<>>
        ELSE LET from == SkipSpace(s, p + 1)
                 to == NextBullet(s, from)
             IN  <<SubSeq(s, from, to - 1)>> \o FindBulletsFrom(s, to)

\* [s.strip() for s in sentences if s.strip()]
RECURSIVE StrippedNonEmpty(_)
StrippedNonEmpty(ss) ==
    IF ss = <<>> THEN <<>>
    ELSE (IF Strip(Head(ss)) # <<>> THEN <<Strip(Head(ss))>> ELSE <<>>)
         \o StrippedNonEmpty(Tail(ss))

\* the bullets of one part: the marked segments, else its sentences
PartBullets(part) ==
    LET bullets == FindBulletsFrom(part, 1)
    IN  IF bullets # <<>> THEN bullets
        ELSE StrippedNonEmpty(SplitSentences(part))

\* the list combined after the loop over the parts
RECURSIVE CombinedBullets(_)
CombinedBullets(parts) ==
    IF parts = <<>> THEN <<>>
    ELSE PartBullets(Head(parts)) \o CombinedBullets(Tail(parts))

InSeq(x, q) == \E k \in 1..Len(q) : q[k] = x

\* the dedup loop: kept holds the cleaned bullets in the order they were added to
\* unique_bullets (seen is the set of its elements)
RECURSIVE UniqueFrom(_, _, _)
UniqueFrom(bs, i, kept) ==
    IF i > Len(bs) THEN kept
    ELSE LET cleaned == Strip(bs[i])
         IN  IF cleaned # <<>> /\ ~InSeq(cleaned, kept)
             THEN UniqueFrom(bs, i + 1, Append(kept, cleaned))
             ELSE UniqueFrom(bs, i + 1, kept)

UniqueBullets(bs) == UniqueFrom(bs, 1, <<>>)

\* sep.join(ss)
RECURSIVE Join(_, _)
Join(sep, ss) ==
    IF ss = <<>> THEN <<>>
    ELSE IF Len(ss) = 1 THEN ss[1]
    ELSE ss[1] \o sep \o Join(sep, Tail(ss))

get_combined_summary(parts, s) ==
    IF s = "Bullet Points"
    THEN LET unique == UniqueBullets(CombinedBullets(parts))
         IN  Join(<<"\n">>, [k \in 1..Len(unique) |-> <<Bullet, " ">> \o unique[k]])
    ELSE Join(<<"\n", "\n">>, parts)

\* combined_summary = get_combined_summary(summary_parts, summary_style)
CombineStep ==
    /\ pc = "returned"
    /\ combined' = get_combined_summary(summaries, style)
    /\ pc' = "combined"
    /\ UNCHANGED <<text, max_tokens, style, chunks, summaries, calls, idx,
                 handlerVars, cacheVars>>

----------------------------------------------------------------------------
(* Specification of the summarization pipeline: summarize_long_text on any *)
(* text, then get_combined_summary on its result, as the handlers call them *)

IdleHandlers ==
    /\ req = <<>>
    /\ uploads = {}
    /\ generated = 0

IdleCache ==
    /\ model_cache = <<>>
    /\ thr = <<>>
    /\ loads = 0
    /\ writes = <<>>

IdlePipeline ==
    /\ text = <<>>
    /\ max_tokens = 1
    /\ style = "Concise"
    /\ chunks = <<>>
    /\ summaries = <<>>
    /\ calls = <<>>
    /\ idx = 0
    /\ pc = "idle"
    /\ combined = <<>>

InitPipeline ==
    /\ text \in StringsUpTo(MaxTextLen)
    /\ max_tokens \in 1..MaxTokens
    /\ style \in Styles
    /\ chunks = <<>>
    /\ summaries = <<>>
    /\ calls = <<>>
    /\ idx = 0
    /\ pc = "start"
    /\ combined = <<>>
    /\ IdleHandlers
    /\ IdleCache

NextPipeline ==
    \/ ChunkStep
    \/ SummarizeChunkOk
    \/ SummarizeChunkFail
    \/ SummarizeReturn
    \/ CombineStep

SpecPipeline == InitPipeline /\ [][NextPipeline]_vars

(* Specification of get_combined_summary on any list of parts *)

CombineStyles == {"Concise", "Bullet Points"}

InitCombine ==
    /\ summaries \in UNION {StringSeqs(n, MaxSummaryChars) : n \in 0..MaxParts}
    /\ style \in CombineStyles
    /\ text = <<>>
    /\ max_tokens = 1
    /\ chunks = <<>>
    /\ calls = <<>>
    /\ idx = 0
    /\ pc = "returned"
    /\ combined = <<>>
    /\ IdleHandlers
    /\ IdleCache

NextCombine == CombineStep

SpecCombine == InitCombine /\ [][NextCombine]_vars

----------------------------------------------------------------------------
(* Properties of the pipeline and of the chunker *)

Range(q) == {q[k] : k \in 1..Len(q)}

Chunked == pc \in {"loop", "returned", "combined"}

Summarized == pc \in {"returned", "combined"}

\* C1: summarize_long_text returns exactly one part per chunk, in chunk order:
\* part i is what the engine generated for prefix + chunk i, or the failure
\* sentinel of the error the engine raised on chunk i; a failure neither drops,
\* duplicates nor reorders a part.
C1_OnePartPerChunk ==
    Chunked =>
        /\ idx <= Len(chunks)
        /\ Len(summaries) = idx
        /\ Len(calls) = idx
        /\ Summarized => Len(summaries) = Len(chunks)
        /\ \A i \in 1..Len(summaries) :
              /\ i <= Len(calls)
              /\ i <= Len(chunks)
              /\ calls[i].input = get_prompt_prefix(style) \o chunks[i]
              /\ summaries[i] = IF calls[i].ok THEN calls[i].value
                                ELSE Sentinel(calls[i].value)

\* a run of at least two chunks in which the engine failed on the first chunk
\* and succeeded on a later one has returned
C1_Witness ==
    /\ pc = "returned"
    /\ Len(chunks) >= 2
    /\ Len(calls) = Len(chunks)
    /\ ~calls[1].ok
    /\ calls[2].ok
    /\ summaries[1] \in {Sentinel(e) : e \in Errors}
    /\ summaries[2] \in Outputs

\* cs is ss cut into consecutive non-empty groups, each group joined by single
\* spaces: no element of ss lost, repeated, reordered or split over two groups
RECURSIVE GroupsInto(_, _)
GroupsInto(cs, ss) ==
    IF cs = <<>> THEN ss = <<>>
    ELSE \E k \in 1..Len(ss) :
            /\ cs[1] = JoinSpace(SubSeq(ss, 1, k))
            /\ GroupsInto(Tail(cs), SubSeq(ss, k + 1, Len(ss)))

Trimmed(s) == s = Strip(s)

\* C4 as stated: for every non-empty text the chunks, split at the separating
\* spaces, are exactly the sentences of the text, in order.
C4_Original ==
    (Chunked /\ text # <<>>) => GroupsInto(chunks, SplitSentences(text))

\* C4 as amended: for every non-empty text that neither starts nor ends with
\* whitespace, the chunks, split at the separating spaces, are exactly the
\* sentences of the text, in order, none lost, repeated or split.
C4_SentencesPreserved ==
    (Chunked /\ text # <<>> /\ Trimmed(text)) =>
        GroupsInto(chunks, SplitSentences(text))

\* a trimmed text of three sentences was cut into more than one chunk, one of
\* them holding two sentences
C4_Witness ==
    /\ Chunked
    /\ text # <<>>
    /\ Trimmed(text)
    /\ Len(SplitSentences(text)) >= 2
    /\ Len(chunks) >= 2

\* C5: chunk_text of the empty string returns no chunk.
C5_EmptyTextNoChunks ==
    (Chunked /\ text = <<>>) => chunks = <<>>

\* C6 as stated: a single sentence longer than max_tokens comes back as exactly
\* one chunk equal to the sentence.
C6_Original ==
    (Chunked /\ Len(SplitSentences(text)) = 1 /\ Len(text) > max_tokens) =>
        chunks = <<text>>

\* C6 as amended: a single sentence longer than max_tokens comes back as
\* exactly one chunk, the sentence with its leading and trailing whitespace
\* removed, neither cut at max_tokens nor split.
C6_OversizedSentenceKept ==
    (Chunked /\ Len(SplitSentences(text)) = 1 /\ Len(text) > max_tokens) =>
        chunks = <<Strip(text)>>

\* a single sentence longer than max_tokens even after trimming is the one chunk
C6_Witness ==
    /\ Chunked
    /\ Len(SplitSentences(text)) = 1
    /\ Len(Strip(text)) > max_tokens
    /\ chunks = <<Strip(text)>>

\* the sentences of the text as a chunk holds them: stripped
StrippedSentences(t) == {Strip(x) : x \in Range(SplitSentences(t))}

\* C11: every chunk is at most max_tokens characters long or is exactly one
\* sentence of the text: only a single sentence that is itself longer than
\* max_tokens exceeds the limit, never a chunk built from several sentences.
C11_OnlySingleSentenceOversized ==
    Chunked =>
        \A k \in 1..Len(chunks) :
            \/ Len(chunks[k]) <= max_tokens
            \/ /\ chunks[k] \in StrippedSentences(text)
               /\ \E x \in Range(SplitSentences(text)) :
                     Strip(x) = chunks[k] /\ Len(x) > max_tokens

\* a text was cut into a chunk within the limit and a chunk over the limit,
\* the latter being one sentence longer than max_tokens
C11_Witness ==
    /\ Chunked
    /\ \E j, k \in 1..Len(chunks) :
          /\ Len(chunks[j]) <= max_tokens
          /\ chunks[j] # <<>>
          /\ Len(chunks[k]) > max_tokens
          /\ chunks[k] \in StrippedSentences(text)

----------------------------------------------------------------------------
(* Properties of the combiner *)

\* s.split("\n") of a non-empty string; no line for the empty string
RECURSIVE LinesFrom(_, _, _)
LinesFrom(s, i, cur) ==
    IF i > Len(s) THEN <<cur>>
    ELSE IF s[i] = "\n" THEN <<cur>> \o LinesFrom(s, i + 1, <<>>)
         ELSE LinesFrom(s, i + 1, Append(cur, s[i]))

Lines(s) == IF s = <<>> THEN <<>> ELSE LinesFrom(s, 1, <<>>)

\* the non-empty trimmed bullet candidates of all parts, in order
Candidates(parts) == StrippedNonEmpty(CombinedBullets(parts))

FirstIndex(q, x) == CHOOSE k \in 1..Len(q) : q[k] = x /\ \A j \in 1..(k - 1) : q[j] # x

\* C9: in the bullet style the output has one bulleted line per distinct
\* non-empty trimmed candidate: a repeated candidate is listed once, and the
\* lines are in the order of the candidates' first occurrences.  A candidate
\* that holds a line break (the pattern of line 175 is compiled with
\* re.DOTALL, and the sentences of line 178 are split after [.!?] only) is
\* written out with it, so it takes two lines, the second without a marker.
C9_BulletsDeduplicated ==
    (pc = "combined" /\ style = "Bullet Points") =>
        LET cands == Candidates(summaries)
            lines == Lines(combined)
        IN  /\ Len(lines) = Cardinality(Range(cands))
            /\ \A c \in Range(cands) :
                  Cardinality({j \in 1..Len(lines) : lines[j] = <<Bullet, " ">> \o c}) = 1
            /\ \A j \in 1..Len(lines) :
                  /\ Len(lines[j]) > 2
                  /\ InSeq(SubSeq(lines[j], 3, Len(lines[j])), cands)
            /\ \A j, k \in 1..Len(lines) :
                  j < k => FirstIndex(cands, SubSeq(lines[j], 3, Len(lines[j])))
                             < FirstIndex(cands, SubSeq(lines[k], 3, Len(lines[k])))

----------------------------------------------------------------------------
(* allowed_file *)

ALLOWED_EXTENSIONS == {"pdf", "txt", "docx"}

\* file names are sequences of these tokens; "PDF" is "pdf" in upper case
Lower(tok) == IF tok = "PDF" THEN "pdf" ELSE tok

Filenames ==
    { <<>>, <<"a">>, <<"pdf">>, <<"a", ".">>, <<".", "docx">>,
      <<"a", ".", "pdf">>, <<"a", ".", "PDF">>, <<"a", ".", "txt">>,
      <<"a", ".", "exe">>, <<"a", ".", "pdf", ".", "exe">>,
      <<"a", ".", "exe", ".", "pdf">>, <<"a", ".", "pdf", "a">> }

\* filename.rsplit('.', 1)[1]: what follows the last dot
AfterLastDot(fn) ==
    LET last == CHOOSE k \in 1..Len(fn) :
                    fn[k] = "." /\ \A j \in (k + 1)..Len(fn) : fn[j] # "."
    IN  SubSeq(fn, last + 1, Len(fn))

allowed_file(fn) ==
    /\ InSeq(".", fn)
    /\ LET ext == AfterLastDot(fn)
       IN  Len(ext) = 1 /\ Lower(ext[1]) \in ALLOWED_EXTENSIONS

----------------------------------------------------------------------------
(* Request handlers.  A request is at position pc of its handler; when the *)
(* handler is left, pc = "done" and the request holds how it was left:     *)
(*   kind "json"        the handler returned jsonify(...) of a result      *)
(*   kind "json_error"  the handler returned jsonify({'error': ...})       *)
(*   kind "escaped"     an exception left the handler function             *)
(* reason names the branch that left it, cause the step that raised, and   *)
(* did the effects the request had: "file" a file written to the upload    *)
(* folder, "model" a model loaded into model_cache, "generate" a           *)
(* generation call.  chunks_left counts the chunks summarize_long_text has  *)
(* still to summarize.  os.remove removes a file that exists and raises    *)
(* FileNotFoundError for one that does not.  Requests are served by        *)
(* threads, so the steps of get_model and the generation calls of          *)
(* different requests interleave.                                          *)

Endpoints == {"process-pdf", "summarize", "export"}

Models == {"MBZUAI/lamini-flan-t5-248m", "facebook/bart-large-cnn"}

Requests == 1..MaxRequests

NewRequest(e) ==
    [endpoint |-> e, pc |-> "validate", status |-> 0, kind |-> "none",
     reason |-> "none", cause |-> "none", did |-> {}, chunks_left |-> 0]

Goto(r, p) == [req EXCEPT ![r].pc = p]

Raise(r, c) == [req EXCEPT ![r].pc = "except", ![r].cause = c]

Respond(r, st, k, why) ==
    [req EXCEPT ![r].pc = "done", ![r].status = st, ![r].kind = k, ![r].reason = why]

At(r, e, p) == req[r].endpoint = e /\ req[r].pc = p

\* the cached engines: model name -> [model, load]
Engine(m, n) == [model |-> m, load |-> n]

NoEngine == [model |-> "none", load |-> 0]

\* a call of get_model: the name asked for, the position in the function, the
\* engine this call built and the engine it returned
NewCall(m) == [want |-> m, pc |-> "check", engine |-> NoEngine, ret |-> NoEngine]

\* a request that is not inside get_model
NoCall == [want |-> "none", pc |-> "idle", engine |-> NoEngine, ret |-> NoEngine]

\* the texts a handler passes to summarize_long_text: those that are not blank
HandlerTexts == {t \in StringsUpTo(MaxTextLen) : Strip(t) # <<>>}

\* len(chunks) of line 141 for these texts
ChunkCounts == {Len(chunk_text(t, max)) : t \in HandlerTexts, max \in 1..MaxTokens}

(* POST /process-pdf *)

\* a validation that saves the upload before it looks at the extension
ProcessPdfValidateSavingFirst(r) ==
    /\ At(r, "process-pdf", "validate")
    /\ \E has_file \in BOOLEAN, fn \in Filenames :
          IF ~has_file
          THEN /\ req' = Respond(r, 400, "json_error", "no_file")
               /\ UNCHANGED uploads
          ELSE IF fn = <<>>
          THEN /\ req' = Respond(r, 400, "json_error", "no_filename")
               /\ UNCHANGED uploads
          ELSE IF ~allowed_file(fn)
          THEN /\ req' = Respond(r, 400, "json_error", "bad_extension")
               /\ uploads' = uploads \cup {r}
          ELSE /\ req' = Goto(r, "params")
               /\ UNCHANGED uploads
    /\ UNCHANGED <<generated, pipeVars, cacheVars>>

\* lines 210-219: the three rejections
ProcessPdfValidate(r) ==
    /\ At(r, "process-pdf", "validate")
    /\ \E has_file \in BOOLEAN, fn \in Filenames :
          IF ~has_file
          THEN req' = Respond(r, 400, "json_error", "no_file")
          ELSE IF fn = <<>>
          THEN req' = Respond(r, 400, "json_error", "no_filename")
          ELSE IF ~allowed_file(fn)
          THEN req' = Respond(r, 400, "json_error", "bad_extension")
          ELSE req' = Goto(r, "params")
    /\ UNCHANGED <<uploads, generated, pipeVars, cacheVars>>

\* lines 222-226: int(...) of the form fields, outside the try block
ProcessPdfParams(r) ==
    /\ At(r, "process-pdf", "params")
    /\ \E numeric \in BOOLEAN :
          IF numeric
          THEN req' = Goto(r, "save")
          ELSE req' = Respond(r, 500, "escaped", "ValueError")
    /\ UNCHANGED <<uploads, generated, pipeVars, cacheVars>>

\* lines 230-234: file.save writes the file, or raises with or without
\* having created it
ProcessPdfSave(r) ==
    /\ At(r, "process-pdf", "save")
    /\ \/ /\ uploads' = uploads \cup {r}
          /\ req' = [Goto(r, "extract") EXCEPT ![r].did = @ \cup {"file"}]
       \/ /\ uploads' = uploads \cup {r}
          /\ req' = [Raise(r, "save") EXCEPT ![r].did = @ \cup {"file"}]
       \/ /\ UNCHANGED uploads
          /\ req' = Raise(r, "save")
    /\ UNCHANGED <<generated, pipeVars, cacheVars>>

\* line 238: extract_text_from_pdf raises
ProcessPdfExtractFails(r) ==
    /\ At(r, "process-pdf", "extract")
    /\ req' = Raise(r, "extract")
    /\ UNCHANGED <<uploads, generated, pipeVars, cacheVars>>

\* a blank-text branch that answers without removing the file
ProcessPdfExtractBlankKeeping(r) ==
    /\ At(r, "process-pdf", "extract")
    /\ req' = Respond(r, 400, "json_error", "no_text")
    /\ UNCHANGED <<uploads, generated, pipeVars, cacheVars>>

\* lines 238-242: the extracted text is blank
ProcessPdfExtractBlank(r) ==
    /\ At(r, "process-pdf", "extract")
    /\ uploads' = uploads \ {r}
    /\ req' = Respond(r, 400, "json_error", "no_text")
    /\ UNCHANGED <<generated, pipeVars, cacheVars>>

\* lines 238-245: text extracted and analyzed
ProcessPdfExtractText(r) ==
    /\ At(r, "process-pdf", "extract")
    /\ req' = Goto(r, "get_model")
    /\ UNCHANGED <<uploads, generated, pipeVars, cacheVars>>

\* line 248 / line 314: the handler calls get_model(model_name)
HandlerCallGetModel(r) ==
    /\ req[r].endpoint \in {"process-pdf", "summarize"}
    /\ req[r].pc = "get_model"
    /\ \E m \in Models : thr' = [thr EXCEPT ![r] = NewCall(m)]
    /\ req' = Goto(r, "in_get_model")
    /\ UNCHANGED <<uploads, generated, model_cache, loads, writes, pipeVars>>

\* line 248 / line 314: get_model has returned the engine to the handler
HandlerGetModelReturns(r) ==
    /\ req[r].pc = "in_get_model"
    /\ thr[r].pc = "done"
    /\ req' = IF thr[r].engine = NoEngine THEN Goto(r, "summarize")
              ELSE [Goto(r, "summarize") EXCEPT ![r].did = @ \cup {"model"}]
    /\ thr' = [thr EXCEPT ![r] = NoCall]
    /\ UNCHANGED <<uploads, generated, model_cache, loads, writes, pipeVars>>

\* line 248 / line 314: get_model raises (the model cannot be loaded)
HandlerGetModelFails(r) ==
    /\ req[r].pc = "in_get_model"
    /\ thr[r].pc = "raised"
    /\ req' = Raise(r, "get_model")
    /\ thr' = [thr EXCEPT ![r] = NoCall]
    /\ UNCHANGED <<uploads, generated, model_cache, loads, writes, pipeVars>>

\* lines 141-143: summarize_long_text splits the text into chunks
HandlerChunk(r) ==
    /\ req[r].endpoint \in {"process-pdf", "summarize"}
    /\ req[r].pc = "summarize"
    /\ \E n \in ChunkCounts :
          req' = [Goto(r, "generate") EXCEPT ![r].chunks_left = n]
    /\ UNCHANGED <<uploads, generated, pipeVars, cacheVars>>

\* lines 141-143: summarize_long_text raises outside its own try
\* (max_tokens of /summarize that is no number)
HandlerSummarizeFails(r) ==
    /\ req[r].endpoint \in {"process-pdf", "summarize"}
    /\ req[r].pc = "summarize"
    /\ req' = Raise(r, "summarize")
    /\ UNCHANGED <<uploads, generated, pipeVars, cacheVars>>

\* lines 145-163: one generation call, for the next chunk; an error of the
\* call is caught and the loop goes on
HandlerGenerate(r) ==
    /\ req[r].pc = "generate"
    /\ req[r].chunks_left > 0
    /\ generated' = generated + 1
    /\ req' = [req EXCEPT ![r].chunks_left = @ - 1, ![r].did = @ \cup {"generate"}]
    /\ UNCHANGED <<uploads, pipeVars, cacheVars>>

\* line 165: every chunk was summarized; summarize_long_text returns
HandlerSummarizeReturn(r) ==
    /\ req[r].pc = "generate"
    /\ req[r].chunks_left = 0
    /\ req' = Goto(r, "respond")
    /\ UNCHANGED <<uploads, generated, pipeVars, cacheVars>>

\* lines 259-279: the response is built, then the file is removed
ProcessPdfRespond(r) ==
    /\ At(r, "process-pdf", "respond")
    /\ \/ /\ uploads' = uploads \ {r}
          /\ req' = Goto(r, "jsonify")
       \/ /\ UNCHANGED uploads
          /\ req' = Raise(r, "respond")
    /\ UNCHANGED <<generated, pipeVars, cacheVars>>

\* line 281: jsonify(response) returns or raises
ProcessPdfJsonify(r) ==
    /\ At(r, "process-pdf", "jsonify")
    /\ \/ req' = Respond(r, 200, "json", "ok")
       \/ req' = Raise(r, "jsonify")
    /\ UNCHANGED <<uploads, generated, pipeVars, cacheVars>>

\* an except block that answers without the clean-up
ProcessPdfExceptKeeping(r) ==
    /\ At(r, "process-pdf", "except")
    /\ req' = Respond(r, 500, "json_error", "processing_failed")
    /\ UNCHANGED <<uploads, generated, pipeVars, cacheVars>>

\* lines 283-290: clean up (an error of os.remove is swallowed), answer 500
ProcessPdfExcept(r) ==
    /\ At(r, "process-pdf", "except")
    /\ uploads' = uploads \ {r}
    /\ req' = Respond(r, 500, "json_error", "processing_failed")
    /\ UNCHANGED <<generated, pipeVars, cacheVars>>

(* POST /summarize *)

\* what a request body can be: no JSON content type, a JSON content type
\* with a body that does not parse, a JSON value that is no object, an object
Bodies == {"not_json", "malformed", "non_object", "object"}

\* the value of data.get('text', ''): absent, blank, text, or no string
TextValues == {"absent", "blank", "text", "non_string"}

\* lines 295-302: the checks before the try block
SummarizeValidate(r) ==
    /\ At(r, "summarize", "validate")
    /\ \E body \in Bodies, tv \in TextValues :
          IF body = "not_json"
          THEN req' = Respond(r, 400, "json_error", "not_json")
          ELSE IF body = "malformed"
          THEN req' = Respond(r, 400, "escaped", "BadRequest")
          ELSE IF body = "non_object"
          THEN req' = Respond(r, 500, "escaped", "AttributeError")
          ELSE IF tv = "non_string"
          THEN req' = Respond(r, 500, "escaped", "AttributeError")
          ELSE IF tv \in {"absent", "blank"}
          THEN req' = Respond(r, 400, "json_error", "blank_text")
          ELSE req' = Goto(r, "get_model")
    /\ UNCHANGED <<uploads, generated, pipeVars, cacheVars>>

\* lines 325-338: combine, analyze, jsonify
SummarizeRespond(r) ==
    /\ At(r, "summarize", "respond")
    /\ \/ req' = Respond(r, 200, "json", "ok")
       \/ req' = Raise(r, "respond")
    /\ UNCHANGED <<uploads, generated, pipeVars, cacheVars>>

\* lines 340-342
SummarizeExcept(r) ==
    /\ At(r, "summarize", "except")
    /\ req' = Respond(r, 500, "json_error", "summarization_failed")
    /\ UNCHANGED <<uploads, generated, pipeVars, cacheVars>>

(* POST /export *)

Formats == {"text", "markdown", "json", "pdf"}

\* lines 347-355: the checks and the data.get calls before the try block
ExportValidate(r) ==
    /\ At(r, "export", "validate")
    /\ \E body \in Bodies :
          IF body = "not_json"
          THEN req' = Respond(r, 400, "json_error", "not_json")
          ELSE IF body = "malformed"
          THEN req' = Respond(r, 400, "escaped", "BadRequest")
          ELSE IF body = "non_object"
          THEN req' = Respond(r, 500, "escaped", "AttributeError")
          ELSE req' = Goto(r, "format")
    /\ UNCHANGED <<uploads, generated, pipeVars, cacheVars>>

\* lines 357-420: the branch of export_format; rendering may raise (a meta
\* that is no object, a filename that is no string)
ExportFormat(r) ==
    /\ At(r, "export", "format")
    /\ \E format \in Formats, renders \in BOOLEAN :
          IF format \notin {"text", "markdown", "json"}
          THEN req' = Respond(r, 400, "json_error", "unsupported_format")
          ELSE IF renders
          THEN req' = Respond(r, 200, "json", "ok")
          ELSE req' = Raise(r, "render")
    /\ UNCHANGED <<uploads, generated, pipeVars, cacheVars>>

\* lines 422-424
ExportExcept(r) ==
    /\ At(r, "export", "except")
    /\ req' = Respond(r, 500, "json_error", "export_failed")
    /\ UNCHANGED <<uploads, generated, pipeVars, cacheVars>>

(* get_model, one bytecode-level step at a time; t is the call (in the     *)
(* handlers, the request that makes it)                                    *)

\* line 44: if model_name not in model_cache
GetModelCheck(t) ==
    /\ thr[t].pc = "check"
    /\ thr' = [thr EXCEPT ![t].pc = IF thr[t].want \in DOMAIN model_cache
                                     THEN "read" ELSE "load"]
    /\ UNCHANGED <<model_cache, loads, writes, pipeVars, handlerVars>>

\* line 46, right-hand side: pipeline(...) builds a new engine
GetModelLoad(t) ==
    /\ thr[t].pc = "load"
    /\ loads' = loads + 1
    /\ thr' = [thr EXCEPT ![t].pc = "write",
                           ![t].engine = Engine(thr[t].want, loads + 1)]
    /\ UNCHANGED <<model_cache, writes, pipeVars, handlerVars>>

\* line 46, right-hand side: pipeline(...) raises; get_model is left
GetModelLoadFails(t) ==
    /\ thr[t].pc = "load"
    /\ thr' = [thr EXCEPT ![t].pc = "raised"]
    /\ UNCHANGED <<model_cache, loads, writes, pipeVars, handlerVars>>

\* a store that replaces the whole cache by the new entry
GetModelWriteEvicting(t) ==
    /\ thr[t].pc = "write"
    /\ model_cache' = (thr[t].want :> thr[t].engine)
    /\ writes' = Append(writes, [name |-> thr[t].want, engine |-> thr[t].engine])
    /\ thr' = [thr EXCEPT ![t].pc = "read"]
    /\ UNCHANGED <<loads, pipeVars, handlerVars>>

\* line 46, the store model_cache[model_name] = ...
GetModelWrite(t) ==
    /\ thr[t].pc = "write"
    /\ model_cache' = (thr[t].want :> thr[t].engine) @@ model_cache
    /\ writes' = Append(writes, [name |-> thr[t].want, engine |-> thr[t].engine])
    /\ thr' = [thr EXCEPT ![t].pc = "read"]
    /\ UNCHANGED <<loads, pipeVars, handlerVars>>

\* line 47: return model_cache[model_name] (KeyError if the key is absent)
GetModelRead(t) ==
    /\ thr[t].pc = "read"
    /\ thr' = IF thr[t].want \in DOMAIN model_cache
              THEN [thr EXCEPT ![t].pc = "done", ![t].ret = model_cache[thr[t].want]]
              ELSE [thr EXCEPT ![t].pc = "raised"]
    /\ UNCHANGED <<model_cache, loads, writes, pipeVars, handlerVars>>

(* Specification of the handlers: MaxRequests requests, served concurrently *)

InitHandlers ==
    /\ req \in [Requests -> {NewRequest(e) : e \in Endpoints}]
    /\ uploads = {}
    /\ generated = 0
    /\ IdlePipeline
    /\ model_cache = <<>>
    /\ thr = [r \in Requests |-> NoCall]
    /\ loads = 0
    /\ writes = <<>>

NextHandlers ==
    \E r \in Requests :
        \/ ProcessPdfValidate(r)
        \/ ProcessPdfParams(r)
        \/ ProcessPdfSave(r)
        \/ ProcessPdfExtractFails(r)
        \/ ProcessPdfExtractBlank(r)
        \/ ProcessPdfExtractText(r)
        \/ HandlerCallGetModel(r)
        \/ GetModelCheck(r)
        \/ GetModelLoad(r)
        \/ GetModelLoadFails(r)
        \/ GetModelWrite(r)
        \/ GetModelRead(r)
        \/ HandlerGetModelReturns(r)
        \/ HandlerGetModelFails(r)
        \/ HandlerChunk(r)
        \/ HandlerSummarizeFails(r)
        \/ HandlerGenerate(r)
        \/ HandlerSummarizeReturn(r)
        \/ ProcessPdfRespond(r)
        \/ ProcessPdfJsonify(r)
        \/ ProcessPdfExcept(r)
        \/ SummarizeValidate(r)
        \/ SummarizeRespond(r)
        \/ SummarizeExcept(r)
        \/ ExportValidate(r)
        \/ ExportFormat(r)
        \/ ExportExcept(r)

SpecHandlers == InitHandlers /\ [][NextHandlers]_vars

----------------------------------------------------------------------------
(* Specification of get_model alone: MaxCalls concurrent calls *)

Calls == 1..MaxCalls

InitCache ==
    /\ thr \in [Calls -> {NewCall(m) : m \in Models}]
    /\ model_cache = <<>>
    /\ loads = 0
    /\ writes = <<>>
    /\ IdlePipeline
    /\ IdleHandlers

NextCache ==
    \E t \in Calls :
        \/ GetModelCheck(t)
        \/ GetModelLoad(t)
        \/ GetModelLoadFails(t)
        \/ GetModelWrite(t)
        \/ GetModelRead(t)

SpecCache == InitCache /\ [][NextCache]_vars

----------------------------------------------------------------------------
(* Properties of the handlers *)

Done(r) == req[r].pc = "done"

\* C2: a /process-pdf request whose upload was written to the upload folder
\* leaves no file there when its handler returns, whatever the exit path.
C2_UploadRemoved ==
    \A r \in Requests :
        (req[r].endpoint = "process-pdf" /\ Done(r) /\ "file" \in req[r].did)
            => r \notin uploads

\* two uploads were saved; one request was answered 200, the other one failed
\* in jsonify after the file was removed and was answered 500
C2_Witness ==
    \E r, q \in Requests :
        /\ Done(r) /\ "file" \in req[r].did /\ req[r].status = 200
        /\ Done(q) /\ "file" \in req[q].did /\ req[q].status = 500
        /\ req[q].cause = "jsonify"
        /\ uploads = {}

\* C3: no exception leaves a handler: every request that is answered is
\* answered by the handler's own JSON result or JSON error.
C3_NoExceptionEscapes ==
    \A r \in Requests : Done(r) => req[r].kind \in {"json", "json_error"}

\* C7 as stated: a document that cannot be parsed, or that yields blank text,
\* is answered 400 with the file removed.
C7_Original ==
    \A r \in Requests :
        (Done(r) /\ (req[r].cause = "extract" \/ req[r].reason = "no_text"))
            => (req[r].status = 400 /\ r \notin uploads)

\* C7 as amended: a document that yields blank text is answered 400 and a
\* document the extractor cannot parse is answered 500, both with a JSON
\* error and with the file removed.
C7_ExtractionErrors ==
    \A r \in Requests :
        /\ (Done(r) /\ req[r].reason = "no_text")
              => (req[r].status = 400 /\ req[r].kind = "json_error" /\ r \notin uploads)
        /\ (Done(r) /\ req[r].cause = "extract")
              => (req[r].status = 500 /\ req[r].kind = "json_error" /\ r \notin uploads)

\* one request was answered for blank text and another for a parse failure
C7_Witness ==
    \E r, q \in Requests :
        /\ Done(r) /\ req[r].reason = "no_text" /\ "file" \in req[r].did
        /\ Done(q) /\ req[q].cause = "extract" /\ "file" \in req[q].did

Rejections ==
    {"no_file", "no_filename", "bad_extension", "not_json", "blank_text",
     "unsupported_format"}

\* C8: the step that rejects a request for invalid input answers 400 and
\* changes neither the upload folder, the model cache nor the number of
\* generation calls, and the request had no such effect before.
C8_RejectionHasNoEffect ==
    [][\A r \in Requests :
          (~Done(r) /\ req'[r].pc = "done" /\ req'[r].reason \in Rejections)
              => /\ req'[r].status = 400
                 /\ req[r].did = {}
                 /\ uploads' = uploads
                 /\ model_cache' = model_cache
                 /\ generated' = generated]_vars

\* an upload was rejected for its extension while another request's file was
\* in the upload folder and a model was cached
C8_Witness ==
    \E r, q \in Requests :
        /\ Done(r) /\ req[r].reason = "bad_extension" /\ req[r].status = 400
        /\ q \in uploads
        /\ DOMAIN model_cache # {}
        /\ generated = 0

----------------------------------------------------------------------------
(* Properties of get_model *)

Finished(t) == thr[t].pc \in {"done", "raised"}

WritesOf(m) == {k \in 1..Len(writes) : writes[k].name = m}

LastWriteOf(m) == CHOOSE k \in WritesOf(m) : \A j \in WritesOf(m) : j <= k

C10_State ==
    /\ \A t \in Calls : thr[t].pc = "done" => thr[t].ret.model = thr[t].want
    /\ \A t \in Calls : thr[t].pc = "raised" => thr[t].engine = NoEngine
    /\ (\A t \in Calls : Finished(t)) =>
          \A m \in Models :
              /\ m \in DOMAIN model_cache <=> WritesOf(m) # {}
              /\ m \in DOMAIN model_cache =>
                    model_cache[m] = writes[LastWriteOf(m)].engine

\* C10: under every interleaving each get_model call that returns, returns an
\* engine loaded for the name it asked for, and a call fails only if its own
\* load fails; no cache entry is ever removed; when all calls have finished
\* the cache maps each name to the engine written last.
C10_ConcurrentGetModel ==
    /\ []C10_State
    /\ [][DOMAIN model_cache \subseteq DOMAIN model_cache']_vars

\* two calls for the same name both loaded the model; all calls have
\* finished and one of the two returned the engine the other one wrote
C10_Witness ==
    /\ \A t \in Calls : Finished(t)
    /\ \E t, u \in Calls :
          /\ t # u
          /\ thr[t].want = thr[u].want
          /\ thr[t].pc = "done" /\ thr[u].pc = "done"
          /\ thr[t].engine # NoEngine /\ thr[u].engine # NoEngine
          /\ thr[t].ret = thr[u].engine
          /\ thr[t].ret # thr[t].engine

====
